---------------------------- MODULE Spec2Model ----------------------------
(***************************************************************************)
(* robot_localization, ros_filter_utilities.cpp:                           *)
(*   lookupTransformSafe  - frame resolution against a tf2 buffer with a   *)
(*                          latest-available fallback and a throttled      *)
(*                          warning;                                       *)
(*   stateToTF, TFtoState - the pose-state <-> rigid-transform codec.      *)
(*                                                                         *)
(* Three specifications share the variables:                               *)
(*   Spec       one caller of lookupTransformSafe; every query the call    *)
(*              makes to the buffer is a step, and the transform listener  *)
(*              may change the buffer between two of them;                 *)
(*   SpecConc   two threads inside lookupTransformSafe, the throttled      *)
(*              warning split into its unsynchronised reads and writes;    *)
(*   SpecCodec  stateToTF followed by TFtoState on a lattice of angles.    *)
(***************************************************************************)
EXTENDS Integers, Sequences, FiniteSets, TLC

VARIABLES
    store,       \* the tf2_ros::Buffer: what canTransform / lookupTransform answer
    out,         \* the caller's target_frame_trans (tf2::Transform &)
    now,         \* node->get_clock()->now(), in milliseconds
    lastLogged,  \* the static last-logged timestamp of the warning at line 200
    diags,       \* the warnings that reached the logger, oldest first
    call,        \* the call of lookupTransformSafe in progress or just returned
    pc,          \* SpecConc: where each thread stands
    tin,         \* SpecConc: each thread's call of lookupTransformSafe
    tnow,        \* SpecConc: each thread's local reading of the clock
    cphase,      \* SpecCodec: "state" -> "tf" -> "back"
    state,       \* SpecCodec: the Eigen state vector handed to stateToTF
    state_tf,    \* SpecCodec: the tf2::Transform built by stateToTF
    state_out    \* SpecCodec: the state vector written by TFtoState

vars == <<store, out, now, lastLogged, diags, call, pc, tin, tnow,
          cphase, state, state_tf, state_out>>

resolverVars == <<store, out, now, lastLogged, diags, call>>
threadVars == <<pc, tin, tnow>>
codecVars == <<cphase, state, state_tf, state_out>>

---------------------------------------------------------------------------
(* Bounds of the model.                                                    *)

\* The clock stops advancing here (milliseconds).
MaxClock == 6000
\* One step of the clock (milliseconds).
TickMs == 1500

---------------------------------------------------------------------------
(* Values.                                                                 *)

Frames == {"odom", "base_link"}

\* Nanoseconds in a second.
NsPerSec == 1000000000

\* A time or a duration as whole seconds and nanoseconds, the nanoseconds
\* below NsPerSec; it stands for sec * NsPerSec + nsec nanoseconds.
Stamp(sec, nsec) == [sec |-> sec, nsec |-> nsec]

\* tf2::TimePointZero, the "latest available" sentinel (line 169).
TimePointZero == Stamp(0, 0)

\* A stamp of a wall clock: seconds since 1970 and 100 ns.
EpochStamp == Stamp(1700000000, 100)

\* rclcpp::Time arguments: the zero stamp and a wall-clock stamp.
Times == {Stamp(0, 0), EpochStamp}
\* rclcpp::Duration arguments: none and 0.5 s.
Durations == {Stamp(0, 0), Stamp(0, NsPerSec \div 2)}

\* geometry_msgs::msg::Transform values a buffer may hold.
MsgA == [translation |-> 1, rotation |-> "qA"]
MsgB == [translation |-> 2, rotation |-> "qB"]
Msgs == {MsgA, MsgB}

\* tf2::Transform values: an origin and a basis.
Identity == [origin |-> 0, basis |-> "I"]
Transforms == {Identity} \cup {[origin |-> m.translation, basis |-> m.rotation] : m \in Msgs}

TransformException == "tf2::TransformException"

---------------------------------------------------------------------------
(* Lines 149-150: rclcpp::Time / Duration -> seconds as a double ->        *)
(* tf2::TimePoint / Duration. The double is IEEE 754 binary64; its         *)
(* arithmetic is done here on naturals of several words, a sequence of     *)
(* limbs with the lowest first and no zero on top.                         *)

\* One limb holds 10 bits.
LimbBits == 10
Limb == 1024

RECURSIVE Pow2(_)
Pow2(k) == IF k = 0 THEN 1 ELSE 2 * Pow2(k - 1)

RECURSIVE BigNorm(_)
BigNorm(a) ==
    IF a = <<>> THEN a
    ELSE IF a[Len(a)] = 0 THEN BigNorm(SubSeq(a, 1, Len(a) - 1)) ELSE a

RECURSIVE BigFromInt(_)
BigFromInt(x) == IF x = 0 THEN <<>> ELSE <<x % Limb>> \o BigFromInt(x \div Limb)

RECURSIVE BigToInt(_)
BigToInt(a) == IF a = <<>> THEN 0 ELSE Head(a) + Limb * BigToInt(Tail(a))

RECURSIVE BigAddCarry(_, _, _)
BigAddCarry(a, b, c) ==
    IF a = <<>> /\ b = <<>>
    THEN (IF c = 0 THEN <<>> ELSE <<c>>)
    ELSE LET x == IF a = <<>> THEN 0 ELSE Head(a)
             y == IF b = <<>> THEN 0 ELSE Head(b)
             s == x + y + c
         IN  <<s % Limb>> \o BigAddCarry(IF a = <<>> THEN a ELSE Tail(a),
                                          IF b = <<>> THEN b ELSE Tail(b),
                                          s \div Limb)
BigAdd(a, b) == BigAddCarry(a, b, 0)

\* a - b, for a >= b.
RECURSIVE BigSubBorrow(_, _, _)
BigSubBorrow(a, b, c) ==
    IF a = <<>> THEN <<>>
    ELSE LET y == IF b = <<>> THEN 0 ELSE Head(b)
             s == Head(a) - y - c
         IN  <<s % Limb>> \o BigSubBorrow(Tail(a), IF b = <<>> THEN b ELSE Tail(b),
                                           IF s < 0 THEN 1 ELSE 0)
BigSub(a, b) == BigNorm(BigSubBorrow(a, b, 0))

\* a * k, for a single word k below 2^21.
RECURSIVE BigMulCarry(_, _, _)
BigMulCarry(a, k, c) ==
    IF a = <<>> THEN BigFromInt(c)
    ELSE LET s == Head(a) * k + c
         IN  <<s % Limb>> \o BigMulCarry(Tail(a), k, s \div Limb)
BigMulSmall(a, k) == BigNorm(BigMulCarry(a, k, 0))

RECURSIVE BigMul(_, _)
BigMul(a, b) ==
    IF b = <<>> \/ a = <<>> THEN <<>>
    ELSE BigAdd(BigMulSmall(a, Head(b)),
                LET r == BigMul(a, Tail(b)) IN IF r = <<>> THEN r ELSE <<0>> \o r)

\* -1, 0 or 1 as a is below, equal to or above b.
RECURSIVE BigCmpFrom(_, _, _)
BigCmpFrom(a, b, i) ==
    IF i = 0 THEN 0
    ELSE IF a[i] < b[i] THEN -1
    ELSE IF a[i] > b[i] THEN 1
    ELSE BigCmpFrom(a, b, i - 1)
BigCmp(a, b) ==
    IF Len(a) < Len(b) THEN -1
    ELSE IF Len(a) > Len(b) THEN 1
    ELSE BigCmpFrom(a, b, Len(a))

\* The number of significant bits.
RECURSIVE IntBits(_)
IntBits(x) == IF x = 0 THEN 0 ELSE 1 + IntBits(x \div 2)
BigBits(a) == IF a = <<>> THEN 0 ELSE LimbBits * (Len(a) - 1) + IntBits(a[Len(a)])

\* Quotient and remainder of a by a single word d below 2^21, from the
\* top limb down.
RECURSIVE BigDivRem(_, _, _)
BigDivRem(a, d, i) ==
    IF i > Len(a) THEN [q |-> <<>>, r |-> 0]
    ELSE LET hi == BigDivRem(a, d, i + 1)
             x == hi.r * Limb + a[i]
         IN  [q |-> <<x \div d>> \o hi.q, r |-> x % d]
BigDivSmall(a, d) == BigNorm(BigDivRem(a, d, 1).q)
BigModSmall(a, d) == BigDivRem(a, d, 1).r

\* a * 2^k, floor(a / 2^k), a mod 2^k.
BigShiftLeft(a, k) ==
    IF a = <<>> THEN a
    ELSE BigMulSmall([i \in 1 .. (k \div LimbBits) |-> 0] \o a, Pow2(k % LimbBits))
BigShiftRight(a, k) ==
    IF k \div LimbBits >= Len(a) THEN <<>>
    ELSE BigDivSmall(SubSeq(a, k \div LimbBits + 1, Len(a)), Pow2(k % LimbBits))
BigLowBits(a, k) == BigSub(a, BigShiftLeft(BigShiftRight(a, k), k))
BigOdd(a) == a # <<>> /\ a[1] % 2 = 1
BigOne == <<1>>

\* binary64 has 53 significant bits.
MantissaBits == 53

\* A non-negative double is [m, e], standing for m * 2^e with m below 2^53
\* (or equal to it after a carry). The double nearest to x * 2^e, ties to
\* the even mantissa: the rounding of every operation on doubles.
RoundToDouble(x, e) ==
    IF BigBits(x) <= MantissaBits THEN [m |-> x, e |-> e]
    ELSE LET s == BigBits(x) - MantissaBits
             q == BigShiftRight(x, s)
             r == BigLowBits(x, s)
             half == BigShiftLeft(BigOne, s - 1)
             c == BigCmp(r, half)
             up == c = 1 \/ (c = 0 /\ BigOdd(q))
         IN  [m |-> IF up THEN BigAdd(q, BigOne) ELSE q, e |-> e + s]

\* The literal 1e-9 as a double: 0x1.12e0be826d695p-30, that is
\* 0x112e0be826d695 * 2^-82.
NanoMantissa == <<661, 437, 642, 47, 302, 4>>
NanoExponent == -82
\* The literal 1e9 as a double, exact: 1953125 * 2^9.
GigaMantissa == 1953125
GigaExponent == 9

\* The nanoseconds a stamp stands for, rcl_time_point_value_t.
nanoseconds(t) ==
    BigAdd(BigMul(BigFromInt(t.sec), BigFromInt(NsPerSec)), BigFromInt(t.nsec))

\* filter_utilities::toSec: static_cast<double>(nanoseconds) * 1e-9. The
\* cast rounds the count to 53 bits and the product rounds again, so a
\* wall-clock stamp does not keep its nanoseconds.
toSec(t) ==
    LET d == RoundToDouble(nanoseconds(t), 0)
    IN  RoundToDouble(BigMul(d.m, NanoMantissa), d.e + NanoExponent)

\* floor(d), d - floor(d), std::round(d) and d * 1e9 on doubles.
Floor(d) == IF d.e >= 0 THEN BigShiftLeft(d.m, d.e) ELSE BigShiftRight(d.m, -d.e)
Fraction(d) ==
    IF d.e >= 0 THEN [m |-> <<>>, e |-> 0] ELSE [m |-> BigLowBits(d.m, -d.e), e |-> d.e]
Round(d) ==
    IF d.e >= 0 THEN Floor(d)
    ELSE IF BigCmp(BigShiftLeft(Fraction(d).m, 1), BigShiftLeft(BigOne, -d.e)) >= 0
         THEN BigAdd(Floor(d), BigOne)
         ELSE Floor(d)
TimesGiga(d) == RoundToDouble(BigMulSmall(d.m, GigaMantissa), d.e + GigaExponent)

\* tf2 turns seconds into nanoseconds in one of two ways, by its release:
\*   "round"  sec = floor(t_sec); nsec = round((t_sec - sec) * 1e9), the
\*            carry of nsec moved into sec;
\*   "cast"   duration_cast of std::chrono::duration<double>(t_sec) to
\*            nanoseconds: t_sec * 1e9 as a double, truncated.
Tf2Builds == {"round", "cast"}

fromSecRound(t_sec) ==
    LET sec == BigToInt(Floor(t_sec))
        nsec == BigToInt(Round(TimesGiga(Fraction(t_sec))))
    IN  Stamp(sec + nsec \div NsPerSec, nsec % NsPerSec)
fromSecCast(t_sec) ==
    LET ns == Floor(TimesGiga(t_sec))
        q1 == BigShiftRight(ns, GigaExponent)
        r1 == BigToInt(BigLowBits(ns, GigaExponent))
    IN  Stamp(BigToInt(BigDivSmall(q1, GigaMantissa)),
              BigModSmall(q1, GigaMantissa) * Pow2(GigaExponent) + r1)

\* tf2::timeFromSec and tf2::durationFromSec.
timeFromSec(build, t_sec) ==
    IF build = "round" THEN fromSecRound(t_sec) ELSE fromSecCast(t_sec)
durationFromSec(build, t_sec) ==
    IF build = "round" THEN fromSecRound(t_sec) ELSE fromSecCast(t_sec)

\* Lines 149 and 150 on the arguments drawn.
TimeTf == [build \in Tf2Builds |-> [t \in Times |-> timeFromSec(build, toSec(t))]]
DurationTf ==
    [build \in Tf2Builds |-> [d \in Durations |-> durationFromSec(build, toSec(d))]]

---------------------------------------------------------------------------
(* The buffer.                                                             *)

\* The time points a buffer holds an answer for: the stamps a caller may
\* ask for, the time points line 149 makes of them, and the sentinel.
TimePoints ==
    Times \cup {TimeTf[build][t] : build \in Tf2Builds, t \in Times} \cup {TimePointZero}

\* A buffer answers canTransform with a boolean and lookupTransform with a
\* message or by throwing a tf2::TransformException. Both read the same
\* data: while the buffer does not change, canTransform says yes exactly
\* when lookupTransform gives a message.
NoMsg == [translation |-> 0, rotation |-> "none"]
Thrown(ex) == [ex |-> ex, msg |-> NoMsg]
Given(m) == [ex |-> "none", msg |-> m]
Lookups == {Given(m) : m \in Msgs} \cup {Thrown(TransformException)}
Answers == {a \in [can : BOOLEAN, rel : Lookups] : a.can <=> a.rel.ex = "none"}
Stores == [TimePoints -> Answers]

\* tf2_ros::Buffer::canTransform(target, source, time, timeout, &error_msg)
canTransform(buffer, target, source, time, timeout) == buffer[time].can

\* tf2_ros::Buffer::lookupTransform(target, source, time, timeout)
lookupTransform(buffer, target, source, time, timeout) == buffer[time].rel

\* tf2::fromMsg(geometry_msgs::msg::Transform, tf2::Transform &), lines 159
\* and 171-177.
fromMsg(m) == [origin |-> m.translation, basis |-> m.rotation]

\* One query as the buffer sees it.
Query(op, target, source, time, timeout) ==
    [op |-> op, target |-> target, source |-> source, time |-> time, timeout |-> timeout]

\* What a query was answered: yes or no by canTransform, a message or a
\* throw by lookupTransform.
CanAnswer(yes) == [can |-> yes, rel |-> Thrown("none asked")]
LookAnswer(r) == [can |-> TRUE, rel |-> r]

---------------------------------------------------------------------------
(* lookupTransformSafe, lines 131-204.                                     *)
(*                                                                         *)
(* A call in progress is a record: its arguments (target, source, time,    *)
(* duration, silent), its locals time_tf and duration_tf, the caller's     *)
(* transform as the call has left it so far (trans), where the call        *)
(* stands (stage) and what it returns (ret):                               *)
(*   stage = "canExact"    before canTransform at time_tf, line 155        *)
(*   stage = "lookExact"   before lookupTransform at time_tf, line 157     *)
(*   stage = "canLatest"   before canTransform at TimePointZero, line 169  *)
(*   stage = "lookLatest"  before lookupTransform at TimePointZero, 173    *)
(*   stage = "done"        returned: ret is "true", "false", or            *)
(*                         "exception" when a throw left the function      *)
(* queries and answers record what the call asked the buffer and what the  *)
(* buffer said, in order; warn says that line 200 was reached.             *)

\* line 144: if (target_frame == source_frame)
\* Faulty variant: the shortcut is never taken.
SameFrameNever(target_frame, source_frame) == FALSE
SameFrame(target_frame, source_frame) == target_frame = source_frame

\* lines 161 and 185: catch (tf2::TransformException & ex)
\* Faulty variant: the handler matches nothing.
CatchesNothing(ex) == FALSE
Catches(ex) == ex = TransformException

\* lines 144-151: the call up to its first query, with a tf2 of `build`.
\* The locals of lines 149-150 are not yet set when line 146 returns.
Start(target_frame, source_frame, time, duration, trans, silent, build) ==
    IF SameFrame(target_frame, source_frame)
    THEN [target |-> target_frame, source |-> source_frame, time |-> time,
          duration |-> duration, silent |-> silent,
          time_tf |-> TimePointZero, duration_tf |-> Stamp(0, 0), trans |-> Identity,
          stage |-> "done", ret |-> "true", queries |-> <<>>, answers |-> <<>>,
          warn |-> FALSE]
    ELSE [target |-> target_frame, source |-> source_frame, time |-> time,
          duration |-> duration, silent |-> silent,
          time_tf |-> TimeTf[build][time], duration_tf |-> DurationTf[build][duration],
          trans |-> trans,
          stage |-> "canExact", ret |-> "pending", queries |-> <<>>, answers |-> <<>>,
          warn |-> FALSE]

\* lines 169 and 175: the timeout handed to the latest-available queries.
\* Faulty variant: the fallback does not wait.
FallbackTimeoutZero(duration_tf) == Stamp(0, 0)
FallbackTimeout(duration_tf) == duration_tf

\* The query the call makes next: lines 155, 157-158, 169, 173-176.
NextQuery(c) ==
    LET time_tf == c.time_tf
        duration_tf == c.duration_tf
    IN  CASE c.stage = "canExact" ->
                Query("canTransform", c.target, c.source, time_tf, duration_tf)
          [] c.stage = "lookExact" ->
                Query("lookupTransform", c.target, c.source, time_tf, duration_tf)
          [] c.stage = "canLatest" ->
                Query("canTransform", c.target, c.source, TimePointZero,
                      FallbackTimeout(duration_tf))
          [] c.stage = "lookLatest" ->
                Query("lookupTransform", c.target, c.source, TimePointZero,
                      FallbackTimeout(duration_tf))

\* The call has asked q and was answered a.
Asked(c, q, a) ==
    [c EXCEPT !.queries = Append(@, q), !.answers = Append(@, a)]

\* lines 159-160 and 171-184: fromMsg into target_frame_trans, return true.
Succeed(c, msg) ==
    [c EXCEPT !.stage = "done", !.ret = "true", !.trans = fromMsg(msg)]

\* A tf2::TransformException that no handler of the function catches.
Escapes(c) ==
    [c EXCEPT !.stage = "done", !.ret = "exception"]

\* lines 161-169: the exact-time attempt gave nothing, on to the latest
\* available transform. Faulty variant: a silent call gives up here.
ToFallbackSilentGivesUp(c) ==
    IF c.silent
    THEN [c EXCEPT !.stage = "done", !.ret = "false"]
    ELSE [c EXCEPT !.stage = "canLatest"]
ToFallback(c) ==
    [c EXCEPT !.stage = "canLatest"]

\* lines 185-203: the latest-available attempt gave nothing either; the
\* warning of line 200 is due unless silent, and the call returns false.
\* Faulty variant: the failure resets the caller's transform.
FailResetsOutput(c) ==
    [c EXCEPT !.stage = "done", !.ret = "false", !.warn = ~c.silent, !.trans = Identity]
Fail(c) ==
    [c EXCEPT !.stage = "done", !.ret = "false", !.warn = ~c.silent]

\* One query of the call against the buffer as it is at that moment, and
\* everything the call does on the answer until its next query or return.
Step(c, buffer) ==
    LET q == NextQuery(c)
    IN  IF q.op = "canTransform"
        THEN LET yes == canTransform(buffer, q.target, q.source, q.time, q.timeout)
                 d == Asked(c, q, CanAnswer(yes))
             IN  IF c.stage = "canExact"
                 THEN IF yes THEN [d EXCEPT !.stage = "lookExact"] ELSE ToFallback(d)
                 ELSE IF yes THEN [d EXCEPT !.stage = "lookLatest"] ELSE Fail(d)
        ELSE LET r == lookupTransform(buffer, q.target, q.source, q.time, q.timeout)
                 d == Asked(c, q, LookAnswer(r))
             IN  IF r.ex = "none" THEN Succeed(d, r.msg)
                 ELSE IF ~Catches(r.ex) THEN Escapes(d)
                 ELSE IF c.stage = "lookExact" THEN ToFallback(d)
                 ELSE Fail(d)

\* The whole function on a buffer that does not change during the call.
RECURSIVE Finish(_, _)
Finish(c, buffer) ==
    IF c.stage = "done" THEN c ELSE Finish(Step(c, buffer), buffer)
lookupTransformSafe(buffer, target_frame, source_frame, time, duration, trans, silent, build) ==
    Finish(Start(target_frame, source_frame, time, duration, trans, silent, build), buffer)

\* line 200, RCLCPP_WARN_STREAM_THROTTLE(logger, clk, 3000, ...): the period.
ThrottleMs == 3000

\* The throttle's test of the clock against the static last-logged time.
\* Faulty variant: no throttling.
ThrottleAlways(clock_now, last_logged) == TRUE
ThrottleCondition(clock_now, last_logged) == clock_now >= last_logged + ThrottleMs

\* The warning of line 200: "Could not transform from <source> to <target>".
Warning(at, source_frame, target_frame) ==
    [at |-> at, text |-> "Could not transform from", source |-> source_frame,
     target |-> target_frame]

NoCall == [stage |-> "none"]

\* The call is between its entry and its return.
InProgress(c) == c.stage \notin {"none", "done"}

---------------------------------------------------------------------------
(* Spec: one caller, and the transform listener that fills the buffer.     *)

InitThreads ==
    /\ pc = [t \in {} |-> "idle"]
    /\ tin = [t \in {} |-> NoCall]
    /\ tnow = [t \in {} |-> 0]

InitCodec ==
    /\ cphase = "off"
    /\ state = <<>>
    /\ state_tf = Identity
    /\ state_out = <<>>

Init ==
    /\ store \in Stores
    /\ out \in Transforms
    /\ now = 0
    /\ lastLogged = 0
    /\ diags = <<>>
    /\ call = NoCall
    /\ InitThreads
    /\ InitCodec

\* What the call found on entry: the caller's transform, the last-logged
\* time, the length of the log; stable: the buffer has not changed since.
Entered(c) ==
    c @@ [prev_trans |-> out, prev_logged |-> lastLogged, prev_ndiags |-> Len(diags),
          stable |-> TRUE]

\* lines 131-151: the caller enters lookupTransformSafe; on equal frames
\* the call returns at once.
Begin(target_frame, source_frame, time, duration, silent, build) ==
    LET c == Start(target_frame, source_frame, time, duration, out, silent, build)
    IN  /\ call = NoCall
        /\ call' = Entered(c)
        /\ out' = c.trans
        /\ UNCHANGED <<store, now, lastLogged, diags>>
        /\ UNCHANGED threadVars
        /\ UNCHANGED codecVars

\* lines 131-204: the overload with an explicit duration.
Resolve ==
    \E target_frame \in Frames, source_frame \in Frames, time \in Times,
       duration \in Durations, silent \in BOOLEAN, build \in Tf2Builds :
        Begin(target_frame, source_frame, time, duration, silent, build)

\* lines 206-218: the overload that passes rclcpp::Duration(0, 0u).
ResolveDefault ==
    \E target_frame \in Frames, source_frame \in Frames, time \in Times,
       silent \in BOOLEAN, build \in Tf2Builds :
        Begin(target_frame, source_frame, time, Stamp(0, 0), silent, build)

\* lines 155-203: the call makes its next query to the buffer and goes on
\* to its following query or to its return, the warning of line 200
\* included.
Ask ==
    /\ InProgress(call)
    /\ LET c == Step(call, store)
           log == c.warn /\ ThrottleCondition(now, lastLogged)
       IN  /\ call' = c
           /\ out' = c.trans
           /\ lastLogged' = IF log THEN now ELSE lastLogged
           /\ diags' = IF log THEN Append(diags, Warning(now, c.source, c.target))
                              ELSE diags
    /\ UNCHANGED <<store, now>>
    /\ UNCHANGED threadVars
    /\ UNCHANGED codecVars

\* The node's clock advances, between calls and while a call waits.
Tick ==
    /\ call.stage # "done"
    /\ now + TickMs <= MaxClock
    /\ now' = now + TickMs
    /\ UNCHANGED <<store, out, lastLogged, diags, call>>
    /\ UNCHANGED threadVars
    /\ UNCHANGED codecVars

\* The transform listener's thread changes what the buffer answers at one
\* time point, between calls or between two queries of a call.
Publish ==
    /\ call.stage # "done"
    /\ \E tp \in TimePoints, a \in Answers :
        /\ store[tp] # a
        /\ store' = [store EXCEPT ![tp] = a]
    /\ call' = IF InProgress(call) THEN [call EXCEPT !.stable = FALSE] ELSE call
    /\ UNCHANGED <<out, now, lastLogged, diags>>
    /\ UNCHANGED threadVars
    /\ UNCHANGED codecVars

\* The caller takes the returned value and goes on.
Consume ==
    /\ call.stage = "done"
    /\ call' = NoCall
    /\ UNCHANGED <<store, out, now, lastLogged, diags>>
    /\ UNCHANGED threadVars
    /\ UNCHANGED codecVars

Next == Resolve \/ ResolveDefault \/ Ask \/ Consume \/ Tick \/ Publish

Spec == Init /\ [][Next]_vars

---------------------------------------------------------------------------
(* SpecConc: two threads call lookupTransformSafe while the transform      *)
(* listener fills the buffer. Each query of the buffer is a step (the      *)
(* buffer has its own lock); the warning of line 200 reads the clock,      *)
(* tests the static last-logged time, writes it and logs, with no lock     *)
(* and no atomic: four steps that interleave.                              *)

Threads == {1, 2}

\* The clock of SpecConc stops advancing here (milliseconds).
ConcMaxClock == 3000

\* The buffers of SpecConc hold one message.
ConcStores == {b \in Stores : \A tp \in TimePoints : b[tp].rel # Given(MsgB)}

InitConc ==
    /\ store \in ConcStores
    /\ out = Identity
    /\ now = 0
    /\ lastLogged = 0
    /\ diags = <<>>
    /\ call = NoCall
    /\ pc = [t \in Threads |-> "idle"]
    /\ tin = [t \in Threads |-> NoCall]
    /\ tnow = [t \in Threads |-> 0]
    /\ InitCodec

\* A thread keeps no record of what its call asked the buffer.
Unlogged(c) == [c EXCEPT !.queries = <<>>, !.answers = <<>>]

\* Where a thread goes on after a step of its call.
After(c) ==
    IF c.stage # "done" THEN "ask" ELSE IF c.warn THEN "now" ELSE "return"

\* lines 206-218 and 131-151: a thread enters lookupTransformSafe through
\* the overload that passes rclcpp::Duration(0, 0u).
Enter(t) ==
    /\ pc[t] = "idle"
    /\ \E target_frame \in Frames, source_frame \in Frames, time \in Times,
          silent \in BOOLEAN, build \in Tf2Builds :
        LET c == Start(target_frame, source_frame, time, Stamp(0, 0), Identity, silent,
                       build)
        IN  /\ tin' = [tin EXCEPT ![t] = c]
            /\ pc' = [pc EXCEPT ![t] = After(c)]
    /\ UNCHANGED <<store, out, now, lastLogged, diags, call, tnow>>
    /\ UNCHANGED codecVars

\* lines 155-197: the thread's call makes its next query to the buffer.
AskConc(t) ==
    /\ pc[t] = "ask"
    /\ LET c == Unlogged(Step(tin[t], store))
       IN  /\ tin' = [tin EXCEPT ![t] = c]
           /\ pc' = [pc EXCEPT ![t] = After(c)]
    /\ UNCHANGED <<store, out, now, lastLogged, diags, call, tnow>>
    /\ UNCHANGED codecVars

\* line 200, the throttle: the thread reads the clock.
ReadClock(t) ==
    /\ pc[t] = "now"
    /\ tnow' = [tnow EXCEPT ![t] = now]
    /\ pc' = [pc EXCEPT ![t] = "test"]
    /\ UNCHANGED <<store, out, now, lastLogged, diags, call, tin>>
    /\ UNCHANGED codecVars

\* line 200, the throttle: the thread reads the static last-logged time
\* and tests the period.
TestThrottle(t) ==
    /\ pc[t] = "test"
    /\ IF ThrottleCondition(tnow[t], lastLogged)
       THEN /\ pc' = [pc EXCEPT ![t] = "write"]
            /\ tnow' = tnow
       ELSE /\ pc' = [pc EXCEPT ![t] = "return"]
            /\ tnow' = [tnow EXCEPT ![t] = 0]
    /\ UNCHANGED <<store, out, now, lastLogged, diags, call, tin>>
    /\ UNCHANGED codecVars

\* line 200, the throttle: the thread writes the static last-logged time.
WriteLast(t) ==
    /\ pc[t] = "write"
    /\ lastLogged' = tnow[t]
    /\ pc' = [pc EXCEPT ![t] = "log"]
    /\ UNCHANGED <<store, out, now, diags, call, tin, tnow>>
    /\ UNCHANGED codecVars

\* line 200: the warning reaches the logger.
Log(t) ==
    /\ pc[t] = "log"
    /\ diags' = Append(diags, Warning(tnow[t], tin[t].source, tin[t].target))
    /\ pc' = [pc EXCEPT ![t] = "return"]
    /\ tnow' = [tnow EXCEPT ![t] = 0]
    /\ UNCHANGED <<store, out, now, lastLogged, call, tin>>
    /\ UNCHANGED codecVars

\* lines 146, 160, 184, 203: the call returns to its thread.
Return(t) ==
    /\ pc[t] = "return"
    /\ pc' = [pc EXCEPT ![t] = "idle"]
    /\ tin' = [tin EXCEPT ![t] = NoCall]
    /\ UNCHANGED <<store, out, now, lastLogged, diags, call, tnow>>
    /\ UNCHANGED codecVars

\* The node's clock advances.
TickConc ==
    /\ now + TickMs <= ConcMaxClock
    /\ now' = now + TickMs
    /\ UNCHANGED <<store, out, lastLogged, diags, call>>
    /\ UNCHANGED threadVars
    /\ UNCHANGED codecVars

\* The transform listener's thread changes what the buffer answers at one
\* time point.
PublishConc ==
    /\ \E tp \in TimePoints, a \in Answers :
        /\ store[tp] # a
        /\ [store EXCEPT ![tp] = a] \in ConcStores
        /\ store' = [store EXCEPT ![tp] = a]
    /\ UNCHANGED <<out, now, lastLogged, diags, call>>
    /\ UNCHANGED threadVars
    /\ UNCHANGED codecVars

NextConc ==
    \/ \E t \in Threads : Enter(t)
    \/ \E t \in Threads : AskConc(t)
    \/ \E t \in Threads : ReadClock(t)
    \/ \E t \in Threads : TestThrottle(t)
    \/ \E t \in Threads : WriteLast(t)
    \/ \E t \in Threads : Log(t)
    \/ \E t \in Threads : Return(t)
    \/ TickConc
    \/ PublishConc

SpecConc == InitConc /\ [][NextConc]_vars

---------------------------------------------------------------------------
(* SpecCodec: stateToTF and TFtoState, lines 220-250.                      *)
(*                                                                         *)
(* Angles are whole multiples of 45 degrees: the state holds k for k * 45  *)
(* degrees. setRPY takes sines and cosines of half angles, multiples of    *)
(* 22.5 degrees; they are computed exactly in Z[c], c = 2 cos(22.5 deg),   *)
(* c^4 = 4 c^2 - 2. <<a0, a1, a2, a3>> is a0 + a1 c + a2 c^2 + a3 c^3.     *)

\* The largest roll and yaw drawn, in steps of 45 degrees.
MaxAngleK == 5
\* The largest position entry drawn.
MaxPos == 1

\* The indices of the state vector used at lines 232-237 and 244-249.
StateMemberX == 0
StateMemberY == 1
StateMemberZ == 2
StateMemberRoll == 3
StateMemberPitch == 4
StateMemberYaw == 5
PoseMembers == {StateMemberX, StateMemberY, StateMemberZ,
                StateMemberRoll, StateMemberPitch, StateMemberYaw}

Degrees(k) == 45 * k

ZInt(n) == <<n, 0, 0, 0>>
ZAdd(a, b) == <<a[1] + b[1], a[2] + b[2], a[3] + b[3], a[4] + b[4]>>
ZNeg(a) == <<-a[1], -a[2], -a[3], -a[4]>>
ZSub(a, b) == ZAdd(a, ZNeg(b))
ZScale(n, a) == <<n * a[1], n * a[2], n * a[3], n * a[4]>>
ZMul(a, b) ==
    LET p0 == a[1] * b[1]
        p1 == a[1] * b[2] + a[2] * b[1]
        p2 == a[1] * b[3] + a[2] * b[2] + a[3] * b[1]
        p3 == a[1] * b[4] + a[2] * b[3] + a[3] * b[2] + a[4] * b[1]
        p4 == a[2] * b[4] + a[3] * b[3] + a[4] * b[2]
        p5 == a[3] * b[4] + a[4] * b[3]
        p6 == a[4] * b[4]
    IN  <<p0 - 2 * p4 - 8 * p6, p1 - 2 * p5, p2 + 4 * p4 + 14 * p6, p3 + 4 * p5>>

\* tf2Cos and tf2Sin at h * 22.5 degrees, times two.
Cos2(h) ==
    LET m == h % 16
        q == IF m > 8 THEN 16 - m ELSE m
    IN  CASE q = 0 -> <<2, 0, 0, 0>>
          [] q = 1 -> <<0, 1, 0, 0>>
          [] q = 2 -> <<-2, 0, 1, 0>>
          [] q = 3 -> <<0, -3, 0, 1>>
          [] q = 4 -> <<0, 0, 0, 0>>
          [] q = 5 -> <<0, 3, 0, -1>>
          [] q = 6 -> <<2, 0, -1, 0>>
          [] q = 7 -> <<0, -1, 0, 0>>
          [] q = 8 -> <<-2, 0, 0, 0>>
Sin2(h) == Cos2(h - 4)

\* tf2::Quaternion::setRPY(roll, pitch, yaw), line 235: the quaternion,
\* each component times eight. Faulty variant: roll and yaw are swapped.
setRPYSwapped(roll, pitch, yaw) ==
    LET cy == Cos2(roll)   sy == Sin2(roll)
        cp == Cos2(pitch)  sp == Sin2(pitch)
        cr == Cos2(yaw)    sr == Sin2(yaw)
    IN  [x |-> ZSub(ZMul(ZMul(sr, cp), cy), ZMul(ZMul(cr, sp), sy)),
         y |-> ZAdd(ZMul(ZMul(cr, sp), cy), ZMul(ZMul(sr, cp), sy)),
         z |-> ZSub(ZMul(ZMul(cr, cp), sy), ZMul(ZMul(sr, sp), cy)),
         w |-> ZAdd(ZMul(ZMul(cr, cp), cy), ZMul(ZMul(sr, sp), sy))]
setRPY(roll, pitch, yaw) ==
    LET cy == Cos2(yaw)    sy == Sin2(yaw)
        cp == Cos2(pitch)  sp == Sin2(pitch)
        cr == Cos2(roll)   sr == Sin2(roll)
    IN  [x |-> ZSub(ZMul(ZMul(sr, cp), cy), ZMul(ZMul(cr, sp), sy)),
         y |-> ZAdd(ZMul(ZMul(cr, sp), cy), ZMul(ZMul(sr, cp), sy)),
         z |-> ZSub(ZMul(ZMul(cr, cp), sy), ZMul(ZMul(sr, sp), cy)),
         w |-> ZAdd(ZMul(ZMul(cr, cp), cy), ZMul(ZMul(sr, sp), sy))]

\* tf2::Matrix3x3 or_tmp(quat), line 224: the rows of the rotation matrix,
\* each entry times 32 (the quaternion has length one, so s = 2 / d = 2).
Matrix3x3(q) ==
    LET xx == ZMul(q.x, q.x)  xy == ZMul(q.x, q.y)  xz == ZMul(q.x, q.z)
        yy == ZMul(q.y, q.y)  yz == ZMul(q.y, q.z)  zz == ZMul(q.z, q.z)
        wx == ZMul(q.w, q.x)  wy == ZMul(q.w, q.y)  wz == ZMul(q.w, q.z)
        one == ZInt(32)
    IN  << <<ZSub(one, ZAdd(yy, zz)), ZSub(xy, wz), ZAdd(xz, wy)>>,
           <<ZAdd(xy, wz), ZSub(one, ZAdd(xx, zz)), ZSub(yz, wx)>>,
           <<ZSub(xz, wy), ZAdd(yz, wx), ZSub(one, ZAdd(xx, yy))>> >>

\* tf2Asin of v / 32: the angle in [-90, 90] degrees with that sine.
Asin(v) == CHOOSE k \in -2 .. 2 : ZScale(16, Sin2(2 * k)) = v

\* v / 32 divided by the cosine cp2 / 2: the quotient, times two.
Quotient(v, cp2) ==
    CHOOSE u \in {Cos2(2 * k) : k \in 0 .. 7} : ZScale(8, ZMul(u, cp2)) = v

\* tf2Atan2(sv / 2, cv / 2): the angle in (-180, 180] degrees.
Atan2(sv, cv) == CHOOSE k \in -3 .. 4 : Sin2(2 * k) = sv /\ Cos2(2 * k) = cv

\* tf2::Matrix3x3::getRPY(roll, pitch, yaw), line 225, away from the
\* singularity fabs(m[2][0]) >= 1, which no pitch drawn below reaches.
getRPY(m) ==
    LET pitch == -Asin(m[3][1])
        cp2 == Cos2(2 * pitch)
    IN  [roll |-> Atan2(Quotient(m[3][2], cp2), Quotient(m[3][3], cp2)),
         pitch |-> pitch,
         yaw |-> Atan2(Quotient(m[2][1], cp2), Quotient(m[1][1], cp2))]

\* lines 220-226
quatToRPY(quat) == getRPY(Matrix3x3(quat))

\* lines 228-240
stateToTF(s) ==
    [origin |-> <<s[StateMemberX], s[StateMemberY], s[StateMemberZ]>>,
     basis |-> setRPY(s[StateMemberRoll], s[StateMemberPitch], s[StateMemberYaw])]

\* lines 242-250: the six pose entries are overwritten, the rest are kept.
TFtoState(tf, s) ==
    LET rpy == quatToRPY(tf.basis)
    IN  [i \in DOMAIN s |->
            CASE i = StateMemberX -> tf.origin[1]
              [] i = StateMemberY -> tf.origin[2]
              [] i = StateMemberZ -> tf.origin[3]
              [] i = StateMemberRoll -> rpy.roll
              [] i = StateMemberPitch -> rpy.pitch
              [] i = StateMemberYaw -> rpy.yaw
              [] OTHER -> s[i]]

\* Roll and yaw drawn: multiples of 45 degrees up to the bound, without the
\* odd multiples of 180 degrees, where the sign of a sine of rounding-error
\* size decides between +180 and -180.
AngleSteps == {k \in -MaxAngleK .. MaxAngleK : k % 8 # 4}
\* Pitch drawn: the multiples of 45 degrees within (-90, 90) degrees.
PitchSteps == {-1, 0, 1}

ZeroState == [i \in PoseMembers |-> 0]

InitCodecRun ==
    /\ store = [tp \in TimePoints |-> [can |-> FALSE, rel |-> Thrown(TransformException)]]
    /\ out = Identity
    /\ now = 0
    /\ lastLogged = 0
    /\ diags = <<>>
    /\ call = NoCall
    /\ InitThreads
    /\ cphase = "state"
    /\ \E x \in 0 .. MaxPos, y \in 0 .. MaxPos, z \in 0 .. MaxPos,
          roll \in AngleSteps, pitch \in PitchSteps, yaw \in AngleSteps :
        state = [i \in PoseMembers |->
                    CASE i = StateMemberX -> x
                      [] i = StateMemberY -> y
                      [] i = StateMemberZ -> z
                      [] i = StateMemberRoll -> roll
                      [] i = StateMemberPitch -> pitch
                      [] i = StateMemberYaw -> yaw]
    /\ state_tf = Identity
    /\ state_out = ZeroState

\* stateToTF(state, state_tf)
Encode ==
    /\ cphase = "state"
    /\ state_tf' = stateToTF(state)
    /\ cphase' = "tf"
    /\ UNCHANGED <<state, state_out>>
    /\ UNCHANGED resolverVars
    /\ UNCHANGED threadVars

\* TFtoState(state_tf, state_out)
Decode ==
    /\ cphase = "tf"
    /\ state_out' = TFtoState(state_tf, state_out)
    /\ cphase' = "back"
    /\ UNCHANGED <<state, state_tf>>
    /\ UNCHANGED resolverVars
    /\ UNCHANGED threadVars

NextCodec == Encode \/ Decode

SpecCodec == InitCodecRun /\ [][NextCodec]_vars

---------------------------------------------------------------------------
(* The resolver's properties, under Spec.                                  *)

\* The call has returned.
Done == call.stage = "done"

\* The call that has just returned was on two distinct frames.
Distinct == Done /\ call.target # call.source

\* The buffer did not change between the call's entry and its return.
Stable == Done /\ call.stable

\* The time and the tolerance the caller asked for.
ReqTime == call.time
ReqTimeout == call.duration

\* The time point and the timeout the call hands to the buffer.
AskedTime == call.time_tf
AskedTimeout == call.duration_tf

\* The buffer can relate the frames at tp: canTransform says yes and
\* lookupTransform gives a relation.
Resolvable(tp) == store[tp].can /\ store[tp].rel.ex = "none"

\* The relation the buffer gives at tp, as a tf2::Transform.
RelationAt(tp) ==
    [origin |-> store[tp].rel.msg.translation, basis |-> store[tp].rel.msg.rotation]

\* The number of warnings the call added to the log.
Emitted == Len(diags) - call.prev_ndiags

CanQ(tp) == Query("canTransform", call.target, call.source, tp, AskedTimeout)
LookQ(tp) == Query("lookupTransform", call.target, call.source, tp, AskedTimeout)

\* The call with its silent flag flipped, from the same entry state, given
\* the same answers by the buffer in the same order.
RECURSIVE Replay(_, _)
Replay(c, answers) ==
    IF c.stage = "done" \/ answers = <<>>
    THEN c
    ELSE Replay(Step(c, [tp \in TimePoints |-> Head(answers)]), Tail(answers))

\* C1: a call whose target frame equals its source frame returns true with
\* the output set to identity, whatever the buffer holds, the time, the
\* tolerance and the silent flag; it makes no query and emits no warning.
C1_IdentityShortcut ==
    (Done /\ call.target = call.source) =>
        /\ call.ret = "true"
        /\ out = Identity
        /\ call.queries = <<>>
        /\ Emitted = 0
        /\ lastLogged = call.prev_logged

\* Such a call on a buffer that relates nothing, overwriting another value.
C1_Witness ==
    /\ Done
    /\ call.target = call.source
    /\ \A tp \in TimePoints : ~store[tp].can
    /\ call.prev_trans # Identity
    /\ ~call.silent
    /\ now >= ThrottleMs
    /\ out = Identity

\* C2: when the buffer relates the two distinct frames at the requested
\* time, the call returns true with the relation the buffer gives for that
\* time, without invoking the fallback (the two queries of the exact-time
\* attempt are all it asks) and without a warning.
C2_ExactRelationNoFallback ==
    (Distinct /\ Stable /\ Resolvable(ReqTime)) =>
        /\ call.ret = "true"
        /\ out = RelationAt(ReqTime)
        /\ Len(call.queries) = 2
        /\ Emitted = 0

\* The warning the comment of lines 166-168 and 179-182 announces.
StaleText == "was unavailable for the time requested. Using latest instead."

\* Only a stale relation exists: not at the requested time, but as latest.
StaleOnly == Distinct /\ Stable /\ ~Resolvable(ReqTime) /\ Resolvable(TimePointZero)

\* C3: when only a stale relation exists, a non-silent call returns true
\* with the latest relation, and the rate-limit window that holds the call
\* holds exactly one stale-transform warning.
C3_StaleWarnedOncePerWindow ==
    (StaleOnly /\ ~call.silent) =>
        /\ call.ret = "true"
        /\ out = RelationAt(TimePointZero)
        /\ Cardinality({i \in DOMAIN diags :
                            /\ diags[i].text = StaleText
                            /\ now - diags[i].at < ThrottleMs}) = 1

\* No relation at all, at no time point: neither attempt can succeed.
NoRelation == Distinct /\ Stable /\ \A tp \in TimePoints : ~Resolvable(tp)

\* C4: with no relation at all for two distinct frames the call returns
\* false; a call that returns false emits one warning naming both frames
\* exactly when silent is false and the throttle period has passed since
\* the last logged warning of the call site, and none otherwise (so none
\* when silent).
C4_FailureWarning ==
    /\ NoRelation => call.ret = "false"
    /\ (Distinct /\ call.ret = "false") =>
            /\ Emitted = IF ~call.silent /\ now - call.prev_logged >= ThrottleMs
                         THEN 1 ELSE 0
            /\ (Emitted = 1 =>
                    /\ diags[Len(diags)].source = call.source
                    /\ diags[Len(diags)].target = call.target
                    /\ diags[Len(diags)].at = now)
            /\ (call.silent => Emitted = 0)

\* A failing call that warned, and had warned before.
C4_Witness ==
    /\ NoRelation
    /\ ~call.silent
    /\ call.ret = "false"
    /\ Len(diags) = 2
    /\ Emitted = 1
    /\ diags[2].source = call.source /\ diags[2].target = call.target

\* C5: the call with the silent flag flipped, on the same frames, time,
\* tolerance and output and given the same answers by the buffer, returns
\* the same value, leaves the same transform and makes the same queries in
\* the same order; so does the flipped call made on the same buffer, when
\* the buffer did not change during the call.
C5_SilentDoesNotChangeResult ==
    Done =>
        \A build \in Tf2Builds :
            LET again == Start(call.target, call.source, call.time, call.duration,
                               call.prev_trans, ~call.silent, build)
                flipped == Replay(again, call.answers)
                onStore == lookupTransformSafe(store, call.target, call.source, call.time,
                                               call.duration, call.prev_trans,
                                               ~call.silent, build)
            IN  (again.time_tf = AskedTime /\ again.duration_tf = AskedTimeout) =>
                    /\ flipped.stage = "done"
                    /\ flipped.ret = call.ret
                    /\ flipped.trans = out
                    /\ flipped.queries = call.queries
                    /\ (Stable =>
                            /\ onStore.ret = call.ret
                            /\ onStore.trans = out
                            /\ onStore.queries = call.queries)

\* A silent call that went through the fallback and succeeded.
C5_Witness ==
    /\ StaleOnly
    /\ ReqTime # TimePointZero
    /\ call.silent
    /\ call.ret = "true"
    /\ Len(call.queries) >= 3
    /\ out = RelationAt(TimePointZero)

\* C6: every call returns true or false; a tf2::TransformException thrown
\* by the buffer never leaves lookupTransformSafe.
C6_NoExceptionEscapes ==
    Done => call.ret \in {"true", "false"}

\* The buffer threw in both attempts and the call returned false.
C6_Witness ==
    /\ Distinct
    /\ ReqTime # TimePointZero
    /\ Len(call.answers) = 4
    /\ call.answers[2].rel.ex = TransformException
    /\ call.answers[4].rel.ex = TransformException
    /\ call.ret = "false"

\* C9: on distinct frames the queries are, in order: canTransform at the
\* time point of the request; lookupTransform at that time only if it said
\* yes; and, only if that gave no relation, canTransform at the sentinel
\* with the same timeout, then lookupTransform at the sentinel only if that
\* canTransform said yes. Each attempt is made once and nothing follows;
\* the call returns false exactly when the last answer gave no relation.
\* On a buffer that did not change, the answers are the buffer's.
C9_QueryOrder ==
    Distinct =>
        LET q == call.queries
            a == call.answers
            n == Len(q)
            k == IF n >= 1 /\ a[1].can THEN 2 ELSE 1
            exactHit == n >= 2 /\ a[1].can /\ a[2].rel.ex = "none"
        IN  /\ n >= 1
            /\ Len(a) = n
            /\ q[1] = CanQ(AskedTime)
            /\ (a[1].can => n >= 2 /\ q[2] = LookQ(AskedTime))
            /\ IF exactHit
               THEN n = 2 /\ call.ret = "true"
               ELSE /\ n >= k + 1
                    /\ q[k + 1] = CanQ(TimePointZero)
                    /\ IF a[k + 1].can
                       THEN /\ n = k + 2
                            /\ q[k + 2] = LookQ(TimePointZero)
                            /\ call.ret = IF a[k + 2].rel.ex = "none" THEN "true"
                                                                      ELSE "false"
                       ELSE /\ n = k + 1
                            /\ call.ret = "false"
            /\ (Stable =>
                    \A i \in 1 .. n :
                        IF q[i].op = "canTransform"
                        THEN a[i].can = store[q[i].time].can
                        ELSE a[i].rel = store[q[i].time].rel)

\* A call at the zero time with a timeout, during which the listener fills
\* the buffer: the exact-time attempt and the fallback ask the same
\* question, the first is answered no, the second yes.
C9_Witness ==
    /\ Distinct
    /\ ~call.stable
    /\ ReqTime = TimePointZero
    /\ ReqTimeout # Stamp(0, 0)
    /\ AskedTimeout = ReqTimeout
    /\ call.queries = <<CanQ(TimePointZero), CanQ(TimePointZero), LookQ(TimePointZero)>>
    /\ ~call.answers[1].can
    /\ call.ret = "true"

\* A step of the call itself: its entry, or one of its queries.
CallStep ==
    /\ call'.stage # "none"
    /\ IF call.stage = "none" THEN TRUE
       ELSE Len(call'.queries) > Len(call.queries)

\* C10: a call that has not returned true, so also one that returns false,
\* leaves the caller's transform as it was before the call, and no step of
\* a call changes the buffer.
C10_FailureLeavesOutput ==
    [][CallStep =>
            /\ store' = store
            /\ (call'.ret # "true" => out' = call'.prev_trans)]_vars

\* A failed call after which the caller still holds an earlier relation.
C10_Witness ==
    /\ NoRelation
    /\ call.ret = "false"
    /\ Len(call.queries) = 2
    /\ out = call.prev_trans
    /\ out # Identity

---------------------------------------------------------------------------
(* The throttle under concurrent calls, under SpecConc.                    *)

\* C7: whatever the interleaving of concurrent calls, the call site logs
\* at most one warning per throttle period: any two logged warnings are at
\* least a period apart.
C7_OneWarningPerWindow ==
    \A i \in DOMAIN diags : \A j \in DOMAIN diags :
        i < j => diags[j].at - diags[i].at >= ThrottleMs

---------------------------------------------------------------------------
(* The codec's round trip, under SpecCodec.                                *)

PitchInBand == -80 < Degrees(state[StateMemberPitch]) /\ Degrees(state[StateMemberPitch]) < 80

\* C8 as stated: for every state vector whose pitch is strictly between
\* -80 and 80 degrees, TFtoState(stateToTF(s)) reproduces the X, Y, Z,
\* Roll, Pitch and Yaw entries of s.
C8_RoundTripAnyAngle ==
    (cphase = "back" /\ PitchInBand) =>
        \A i \in PoseMembers : state_out[i] = state[i]

Wrapped(k) == -180 < Degrees(k) /\ Degrees(k) < 180

\* C8 as amended: for every state vector whose pitch is strictly between
\* -80 and 80 degrees and whose roll and yaw are strictly between -180 and
\* 180 degrees, TFtoState(stateToTF(s)) reproduces the X, Y, Z, Roll, Pitch
\* and Yaw entries of s; for any roll and yaw it reproduces X, Y, Z and
\* pitch, and roll and yaw up to a multiple of 360 degrees.
C8_RoundTripWrapped ==
    (cphase = "back" /\ PitchInBand) =>
        /\ (Wrapped(state[StateMemberRoll]) /\ Wrapped(state[StateMemberYaw]) =>
                \A i \in PoseMembers : state_out[i] = state[i])
        /\ \A i \in {StateMemberX, StateMemberY, StateMemberZ, StateMemberPitch} :
                state_out[i] = state[i]
        /\ \A i \in {StateMemberRoll, StateMemberYaw} :
                (Degrees(state_out[i]) - Degrees(state[i])) % 360 = 0

\* A round trip of a vector with distinct non-zero roll, pitch and yaw.
C8_Witness ==
    /\ cphase = "back"
    /\ state[StateMemberRoll] = 1
    /\ state[StateMemberPitch] = -1
    /\ state[StateMemberYaw] = 3
    /\ state[StateMemberX] = 1
    /\ state_out = state
=============================================================================
